---- MODULE Spec2Model ----
(***************************************************************************)
(* FurcHash (mcrouter/lib/fbi/hash.c): the MurmurHash64A mixing hash, the  *)
(* cached bit stream furc_get_bit, the decision tree walk furc_hash_array  *)
(* and the table driven crc32_hash.                                        *)
(*                                                                         *)
(* TLC's integers are 32 bits wide, so a uint64_t is a tuple of 8 bytes    *)
(* and a uint32_t a tuple of 4 bytes, least significant byte first.  This  *)
(* is the base 256 notation of the number, not a memory layout.            *)
(***************************************************************************)
EXTENDS Integers, Sequences, FiniteSets, TLC

\* ------------------------------------------------------------------ words

\* W64(b7, ..., b0) is the uint64_t 0x b7 b6 b5 b4 b3 b2 b1 b0.
W64(b7, b6, b5, b4, b3, b2, b1, b0) == <<b0, b1, b2, b3, b4, b5, b6, b7>>

\* W32(b3, b2, b1, b0) is the uint32_t 0x b3 b2 b1 b0.
W32(b3, b2, b1, b0) == <<b0, b1, b2, b3>>

Zero64 == W64(0, 0, 0, 0, 0, 0, 0, 0)
Ones64 == W64(255, 255, 255, 255, 255, 255, 255, 255)

\* The natural number n (a size_t below 2^31) as a uint64_t.
Nat64(n) ==
    <<n % 256, (n \div 256) % 256, (n \div 65536) % 256, n \div 16777216,
      0, 0, 0, 0>>

\* A uint32_t widened to uint64_t (zero extension).
ZeroExt64(x) == <<x[1], x[2], x[3], x[4], 0, 0, 0, 0>>

XorNib ==
    [a \in 0..15 |-> [b \in 0..15 |->
          ((a + b) % 2)
        + 2 * (((a \div 2) + (b \div 2)) % 2)
        + 4 * (((a \div 4) + (b \div 4)) % 2)
        + 8 * (((a \div 8) + (b \div 8)) % 2)]]

XorByte(a, b) == 16 * XorNib[a \div 16][b \div 16] + XorNib[a % 16][b % 16]

\* x ^ y on words of the same width, 4 or 8 bytes.
Xor(x, y) ==
    IF Len(x) = 4
    THEN <<XorByte(x[1], y[1]), XorByte(x[2], y[2]),
           XorByte(x[3], y[3]), XorByte(x[4], y[4])>>
    ELSE <<XorByte(x[1], y[1]), XorByte(x[2], y[2]),
           XorByte(x[3], y[3]), XorByte(x[4], y[4]),
           XorByte(x[5], y[5]), XorByte(x[6], y[6]),
           XorByte(x[7], y[7]), XorByte(x[8], y[8])>>

\* ~x
Not(x) ==
    IF Len(x) = 4
    THEN <<255 - x[1], 255 - x[2], 255 - x[3], 255 - x[4]>>
    ELSE <<255 - x[1], 255 - x[2], 255 - x[3], 255 - x[4],
           255 - x[5], 255 - x[6], 255 - x[7], 255 - x[8]>>

\* Byte j of x, 0 above its width.
ByteAt(x, j) == IF j <= Len(x) THEN x[j] ELSE 0

\* Byte i of x >> r: the high bits of byte i + r div 8 and the low bits of
\* the byte above it.
ShrByte(x, r, i) ==
    (ByteAt(x, i + (r \div 8)) \div (2 ^ (r % 8)))
    + (ByteAt(x, i + (r \div 8) + 1) % (2 ^ (r % 8))) * (2 ^ (8 - (r % 8)))

\* x >> r
Shr(x, r) ==
    IF Len(x) = 4
    THEN <<ShrByte(x, r, 1), ShrByte(x, r, 2), ShrByte(x, r, 3), ShrByte(x, r, 4)>>
    ELSE <<ShrByte(x, r, 1), ShrByte(x, r, 2), ShrByte(x, r, 3), ShrByte(x, r, 4),
           ShrByte(x, r, 5), ShrByte(x, r, 6), ShrByte(x, r, 7), ShrByte(x, r, 8)>>

\* x ^= x >> r
XorShr(x, r) == Xor(x, Shr(x, r))

\* (uint64_t)byte << (8 * pos)
ShlByte64(byte, pos) == [Zero64 EXCEPT ![pos + 1] = byte]

\* Long multiplication in base 256: the term x[i] * y[k + 1 - i] of column
\* k, the column's sum, and the product with the carries taken from the
\* lowest column up; the columns above the eighth are dropped.
MulTerm(x, y, k, i) == IF i <= k THEN x[i] * y[k + 1 - i] ELSE 0

MulCol(x, y, k) ==
    MulTerm(x, y, k, 1) + (MulTerm(x, y, k, 2) + (MulTerm(x, y, k, 3)
    + (MulTerm(x, y, k, 4) + (MulTerm(x, y, k, 5) + (MulTerm(x, y, k, 6)
    + (MulTerm(x, y, k, 7) + MulTerm(x, y, k, 8)))))))

\* The bytes of the product from column k up, carry being what the columns
\* below carried into it, and s the sum of column k with that carry.
RECURSIVE MulFrom(_, _, _, _)
MulNext(x, y, k, s) == <<s % 256>> \o MulFrom(x, y, k + 1, s \div 256)

MulFrom(x, y, k, carry) ==
    IF k > 8 THEN <<>> ELSE MulNext(x, y, k, MulCol(x, y, k) + carry)

\* x * y modulo 2^64
Mul64(x, y) == MulFrom(x, y, 1, 0)

\* --------------------------------------------------------------- murmur

\* #define SEED 4193360111ul  (0xF9F198EF)
SEED == W32(\hf9, \hf1, \h98, \hef)

\* const uint64_t m = 0xc6a4a7935bd1e995ULL
MurmurM == W64(\hc6, \ha4, \ha7, \h93, \h5b, \hd1, \he9, \h95)

\* const int r = 47
MurmurR == 47

\* *data++ : the w-th 8 byte word of the key, read as a native uint64_t
\* (x86-64: little endian).
LoadWord(key, w) == SubSeq(key, 8 * w + 1, 8 * w + 8)

RECURSIVE MurmurWords(_, _, _, _)
MurmurWords(h, key, w, nw) ==
    IF w = nw THEN h
    ELSE LET k0 == LoadWord(key, w)
             k1 == Mul64(k0, MurmurM)
             k2 == XorShr(k1, MurmurR)
             k3 == Mul64(k2, MurmurM)
             h1 == Xor(h, k3)
             h2 == Mul64(h1, MurmurM)
         IN  MurmurWords(h2, key, w + 1, nw)

\* switch (len & 7): case c falls through to case c - 1, down to case 1.
RECURSIVE MurmurTail(_, _, _, _)
MurmurTail(h, key, base, c) ==
    IF c = 0 THEN h
    ELSE MurmurTail(Xor(h, ShlByte64(key[base + c], c - 1)), key, base, c - 1)

\* The value of the one element of S.  The statements of a hash are written
\* innermost first, { next(h) : h \in { first } }, so that each one's value
\* is computed before the statement after it reads it.
The(S) == CHOOSE h \in S : TRUE

\* Lines 70-81: the len & 7 bytes after the last word, and h *= m if there
\* are any.
MurmurLast(h, key, len) ==
    IF len % 8 = 0 THEN h
    ELSE Mul64(MurmurTail(h, key, 8 * (len \div 8), len % 8), MurmurM)

murmur_hash_64A(key, len, seed) ==
    The({XorShr(h4, MurmurR) :                             \* h ^= h >> r
         h4 \in {Mul64(h3, MurmurM) :                      \* h *= m
         h3 \in {XorShr(h2, MurmurR) :                     \* h ^= h >> r
         h2 \in {MurmurLast(h1, key, len) :                \* switch (len & 7)
         h1 \in {MurmurWords(h0, key, 0, len \div 8) :     \* while (data != end)
         h0 \in {Xor(ZeroExt64(seed), Mul64(Nat64(len), MurmurM))}}}}}})

\* The rehash with h starting from SEED alone.
murmur_rehash_64A_NoLen(k) ==
    The({XorShr(h4, MurmurR) :                             \* h ^= h >> r
         h4 \in {Mul64(h3, MurmurM) :                      \* h *= m
         h3 \in {XorShr(h2, MurmurR) :                     \* h ^= h >> r
         h2 \in {Mul64(h1, MurmurM) :                      \* h *= m
         h1 \in {Xor(ZeroExt64(SEED), k3) :                \* h ^= k
         k3 \in {Mul64(k2, MurmurM) :                      \* k *= m
         k2 \in {XorShr(k1, MurmurR) :                     \* k ^= k >> r
         k1 \in {Mul64(k, MurmurM)}}}}}}}})                \* k *= m

murmur_rehash_64A(k) ==
    The({XorShr(h4, MurmurR) :                             \* h ^= h >> r
         h4 \in {Mul64(h3, MurmurM) :                      \* h *= m
         h3 \in {XorShr(h2, MurmurR) :                     \* h ^= h >> r
         h2 \in {Mul64(h1, MurmurM) :                      \* h *= m
         h1 \in {Xor(Xor(ZeroExt64(SEED), Mul64(Nat64(8), MurmurM)), k3) :  \* h ^= k
         k3 \in {Mul64(k2, MurmurM) :                      \* k *= m
         k2 \in {XorShr(k1, MurmurR) :                     \* k ^= k >> r
         k1 \in {Mul64(k, MurmurM)}}}}}}}})                \* k *= m

\* ------------------------------------------------------------- crc32

\* static const unsigned int crc32tab[256]; entry n is crc32tab[n + 1].
crc32tab == <<
    W32(\h00, \h00, \h00, \h00), W32(\h77, \h07, \h30, \h96), W32(\hee, \h0e, \h61, \h2c), W32(\h99, \h09, \h51, \hba),
    W32(\h07, \h6d, \hc4, \h19), W32(\h70, \h6a, \hf4, \h8f), W32(\he9, \h63, \ha5, \h35), W32(\h9e, \h64, \h95, \ha3),
    W32(\h0e, \hdb, \h88, \h32), W32(\h79, \hdc, \hb8, \ha4), W32(\he0, \hd5, \he9, \h1e), W32(\h97, \hd2, \hd9, \h88),
    W32(\h09, \hb6, \h4c, \h2b), W32(\h7e, \hb1, \h7c, \hbd), W32(\he7, \hb8, \h2d, \h07), W32(\h90, \hbf, \h1d, \h91),
    W32(\h1d, \hb7, \h10, \h64), W32(\h6a, \hb0, \h20, \hf2), W32(\hf3, \hb9, \h71, \h48), W32(\h84, \hbe, \h41, \hde),
    W32(\h1a, \hda, \hd4, \h7d), W32(\h6d, \hdd, \he4, \heb), W32(\hf4, \hd4, \hb5, \h51), W32(\h83, \hd3, \h85, \hc7),
    W32(\h13, \h6c, \h98, \h56), W32(\h64, \h6b, \ha8, \hc0), W32(\hfd, \h62, \hf9, \h7a), W32(\h8a, \h65, \hc9, \hec),
    W32(\h14, \h01, \h5c, \h4f), W32(\h63, \h06, \h6c, \hd9), W32(\hfa, \h0f, \h3d, \h63), W32(\h8d, \h08, \h0d, \hf5),
    W32(\h3b, \h6e, \h20, \hc8), W32(\h4c, \h69, \h10, \h5e), W32(\hd5, \h60, \h41, \he4), W32(\ha2, \h67, \h71, \h72),
    W32(\h3c, \h03, \he4, \hd1), W32(\h4b, \h04, \hd4, \h47), W32(\hd2, \h0d, \h85, \hfd), W32(\ha5, \h0a, \hb5, \h6b),
    W32(\h35, \hb5, \ha8, \hfa), W32(\h42, \hb2, \h98, \h6c), W32(\hdb, \hbb, \hc9, \hd6), W32(\hac, \hbc, \hf9, \h40),
    W32(\h32, \hd8, \h6c, \he3), W32(\h45, \hdf, \h5c, \h75), W32(\hdc, \hd6, \h0d, \hcf), W32(\hab, \hd1, \h3d, \h59),
    W32(\h26, \hd9, \h30, \hac), W32(\h51, \hde, \h00, \h3a), W32(\hc8, \hd7, \h51, \h80), W32(\hbf, \hd0, \h61, \h16),
    W32(\h21, \hb4, \hf4, \hb5), W32(\h56, \hb3, \hc4, \h23), W32(\hcf, \hba, \h95, \h99), W32(\hb8, \hbd, \ha5, \h0f),
    W32(\h28, \h02, \hb8, \h9e), W32(\h5f, \h05, \h88, \h08), W32(\hc6, \h0c, \hd9, \hb2), W32(\hb1, \h0b, \he9, \h24),
    W32(\h2f, \h6f, \h7c, \h87), W32(\h58, \h68, \h4c, \h11), W32(\hc1, \h61, \h1d, \hab), W32(\hb6, \h66, \h2d, \h3d),
    W32(\h76, \hdc, \h41, \h90), W32(\h01, \hdb, \h71, \h06), W32(\h98, \hd2, \h20, \hbc), W32(\hef, \hd5, \h10, \h2a),
    W32(\h71, \hb1, \h85, \h89), W32(\h06, \hb6, \hb5, \h1f), W32(\h9f, \hbf, \he4, \ha5), W32(\he8, \hb8, \hd4, \h33),
    W32(\h78, \h07, \hc9, \ha2), W32(\h0f, \h00, \hf9, \h34), W32(\h96, \h09, \ha8, \h8e), W32(\he1, \h0e, \h98, \h18),
    W32(\h7f, \h6a, \h0d, \hbb), W32(\h08, \h6d, \h3d, \h2d), W32(\h91, \h64, \h6c, \h97), W32(\he6, \h63, \h5c, \h01),
    W32(\h6b, \h6b, \h51, \hf4), W32(\h1c, \h6c, \h61, \h62), W32(\h85, \h65, \h30, \hd8), W32(\hf2, \h62, \h00, \h4e),
    W32(\h6c, \h06, \h95, \hed), W32(\h1b, \h01, \ha5, \h7b), W32(\h82, \h08, \hf4, \hc1), W32(\hf5, \h0f, \hc4, \h57),
    W32(\h65, \hb0, \hd9, \hc6), W32(\h12, \hb7, \he9, \h50), W32(\h8b, \hbe, \hb8, \hea), W32(\hfc, \hb9, \h88, \h7c),
    W32(\h62, \hdd, \h1d, \hdf), W32(\h15, \hda, \h2d, \h49), W32(\h8c, \hd3, \h7c, \hf3), W32(\hfb, \hd4, \h4c, \h65),
    W32(\h4d, \hb2, \h61, \h58), W32(\h3a, \hb5, \h51, \hce), W32(\ha3, \hbc, \h00, \h74), W32(\hd4, \hbb, \h30, \he2),
    W32(\h4a, \hdf, \ha5, \h41), W32(\h3d, \hd8, \h95, \hd7), W32(\ha4, \hd1, \hc4, \h6d), W32(\hd3, \hd6, \hf4, \hfb),
    W32(\h43, \h69, \he9, \h6a), W32(\h34, \h6e, \hd9, \hfc), W32(\had, \h67, \h88, \h46), W32(\hda, \h60, \hb8, \hd0),
    W32(\h44, \h04, \h2d, \h73), W32(\h33, \h03, \h1d, \he5), W32(\haa, \h0a, \h4c, \h5f), W32(\hdd, \h0d, \h7c, \hc9),
    W32(\h50, \h05, \h71, \h3c), W32(\h27, \h02, \h41, \haa), W32(\hbe, \h0b, \h10, \h10), W32(\hc9, \h0c, \h20, \h86),
    W32(\h57, \h68, \hb5, \h25), W32(\h20, \h6f, \h85, \hb3), W32(\hb9, \h66, \hd4, \h09), W32(\hce, \h61, \he4, \h9f),
    W32(\h5e, \hde, \hf9, \h0e), W32(\h29, \hd9, \hc9, \h98), W32(\hb0, \hd0, \h98, \h22), W32(\hc7, \hd7, \ha8, \hb4),
    W32(\h59, \hb3, \h3d, \h17), W32(\h2e, \hb4, \h0d, \h81), W32(\hb7, \hbd, \h5c, \h3b), W32(\hc0, \hba, \h6c, \had),
    W32(\hed, \hb8, \h83, \h20), W32(\h9a, \hbf, \hb3, \hb6), W32(\h03, \hb6, \he2, \h0c), W32(\h74, \hb1, \hd2, \h9a),
    W32(\hea, \hd5, \h47, \h39), W32(\h9d, \hd2, \h77, \haf), W32(\h04, \hdb, \h26, \h15), W32(\h73, \hdc, \h16, \h83),
    W32(\he3, \h63, \h0b, \h12), W32(\h94, \h64, \h3b, \h84), W32(\h0d, \h6d, \h6a, \h3e), W32(\h7a, \h6a, \h5a, \ha8),
    W32(\he4, \h0e, \hcf, \h0b), W32(\h93, \h09, \hff, \h9d), W32(\h0a, \h00, \hae, \h27), W32(\h7d, \h07, \h9e, \hb1),
    W32(\hf0, \h0f, \h93, \h44), W32(\h87, \h08, \ha3, \hd2), W32(\h1e, \h01, \hf2, \h68), W32(\h69, \h06, \hc2, \hfe),
    W32(\hf7, \h62, \h57, \h5d), W32(\h80, \h65, \h67, \hcb), W32(\h19, \h6c, \h36, \h71), W32(\h6e, \h6b, \h06, \he7),
    W32(\hfe, \hd4, \h1b, \h76), W32(\h89, \hd3, \h2b, \he0), W32(\h10, \hda, \h7a, \h5a), W32(\h67, \hdd, \h4a, \hcc),
    W32(\hf9, \hb9, \hdf, \h6f), W32(\h8e, \hbe, \hef, \hf9), W32(\h17, \hb7, \hbe, \h43), W32(\h60, \hb0, \h8e, \hd5),
    W32(\hd6, \hd6, \ha3, \he8), W32(\ha1, \hd1, \h93, \h7e), W32(\h38, \hd8, \hc2, \hc4), W32(\h4f, \hdf, \hf2, \h52),
    W32(\hd1, \hbb, \h67, \hf1), W32(\ha6, \hbc, \h57, \h67), W32(\h3f, \hb5, \h06, \hdd), W32(\h48, \hb2, \h36, \h4b),
    W32(\hd8, \h0d, \h2b, \hda), W32(\haf, \h0a, \h1b, \h4c), W32(\h36, \h03, \h4a, \hf6), W32(\h41, \h04, \h7a, \h60),
    W32(\hdf, \h60, \hef, \hc3), W32(\ha8, \h67, \hdf, \h55), W32(\h31, \h6e, \h8e, \hef), W32(\h46, \h69, \hbe, \h79),
    W32(\hcb, \h61, \hb3, \h8c), W32(\hbc, \h66, \h83, \h1a), W32(\h25, \h6f, \hd2, \ha0), W32(\h52, \h68, \he2, \h36),
    W32(\hcc, \h0c, \h77, \h95), W32(\hbb, \h0b, \h47, \h03), W32(\h22, \h02, \h16, \hb9), W32(\h55, \h05, \h26, \h2f),
    W32(\hc5, \hba, \h3b, \hbe), W32(\hb2, \hbd, \h0b, \h28), W32(\h2b, \hb4, \h5a, \h92), W32(\h5c, \hb3, \h6a, \h04),
    W32(\hc2, \hd7, \hff, \ha7), W32(\hb5, \hd0, \hcf, \h31), W32(\h2c, \hd9, \h9e, \h8b), W32(\h5b, \hde, \hae, \h1d),
    W32(\h9b, \h64, \hc2, \hb0), W32(\hec, \h63, \hf2, \h26), W32(\h75, \h6a, \ha3, \h9c), W32(\h02, \h6d, \h93, \h0a),
    W32(\h9c, \h09, \h06, \ha9), W32(\heb, \h0e, \h36, \h3f), W32(\h72, \h07, \h67, \h85), W32(\h05, \h00, \h57, \h13),
    W32(\h95, \hbf, \h4a, \h82), W32(\he2, \hb8, \h7a, \h14), W32(\h7b, \hb1, \h2b, \hae), W32(\h0c, \hb6, \h1b, \h38),
    W32(\h92, \hd2, \h8e, \h9b), W32(\he5, \hd5, \hbe, \h0d), W32(\h7c, \hdc, \hef, \hb7), W32(\h0b, \hdb, \hdf, \h21),
    W32(\h86, \hd3, \hd2, \hd4), W32(\hf1, \hd4, \he2, \h42), W32(\h68, \hdd, \hb3, \hf8), W32(\h1f, \hda, \h83, \h6e),
    W32(\h81, \hbe, \h16, \hcd), W32(\hf6, \hb9, \h26, \h5b), W32(\h6f, \hb0, \h77, \he1), W32(\h18, \hb7, \h47, \h77),
    W32(\h88, \h08, \h5a, \he6), W32(\hff, \h0f, \h6a, \h70), W32(\h66, \h06, \h3b, \hca), W32(\h11, \h01, \h0b, \h5c),
    W32(\h8f, \h65, \h9e, \hff), W32(\hf8, \h62, \hae, \h69), W32(\h61, \h6b, \hff, \hd3), W32(\h16, \h6c, \hcf, \h45),
    W32(\ha0, \h0a, \he2, \h78), W32(\hd7, \h0d, \hd2, \hee), W32(\h4e, \h04, \h83, \h54), W32(\h39, \h03, \hb3, \hc2),
    W32(\ha7, \h67, \h26, \h61), W32(\hd0, \h60, \h16, \hf7), W32(\h49, \h69, \h47, \h4d), W32(\h3e, \h6e, \h77, \hdb),
    W32(\hae, \hd1, \h6a, \h4a), W32(\hd9, \hd6, \h5a, \hdc), W32(\h40, \hdf, \h0b, \h66), W32(\h37, \hd8, \h3b, \hf0),
    W32(\ha9, \hbc, \hae, \h53), W32(\hde, \hbb, \h9e, \hc5), W32(\h47, \hb2, \hcf, \h7f), W32(\h30, \hb5, \hff, \he9),
    W32(\hbd, \hbd, \hf2, \h1c), W32(\hca, \hba, \hc2, \h8a), W32(\h53, \hb3, \h93, \h30), W32(\h24, \hb4, \ha3, \ha6),
    W32(\hba, \hd0, \h36, \h05), W32(\hcd, \hd7, \h06, \h93), W32(\h54, \hde, \h57, \h29), W32(\h23, \hd9, \h67, \hbf),
    W32(\hb3, \h66, \h7a, \h2e), W32(\hc4, \h61, \h4a, \hb8), W32(\h5d, \h68, \h1b, \h02), W32(\h2a, \h6f, \h2b, \h94),
    W32(\hb4, \h0b, \hbe, \h37), W32(\hc3, \h0c, \h8e, \ha1), W32(\h5a, \h05, \hdf, \h1b), W32(\h2d, \h02, \hef, \h8d)
>>

\* key[i], a char, in crc ^ key[i]: promoted to int and converted to
\* unsigned int.  Whether char is signed is the implementation's choice; a
\* signed char above 127 is negative and sign extended.
Promote(byte, signed) ==
    IF signed /\ byte >= 128 THEN W32(255, 255, 255, byte) ELSE W32(0, 0, 0, byte)

\* (crc ^ (key[i])) & 0xff
CrcIndex(acc, byte, signed) == Xor(acc, Promote(byte, signed))[1]

\* crc = (crc >> 8) ^ crc32tab[(crc ^ (key[i])) & 0xff]
CrcFold(acc, byte, signed) ==
    Xor(Shr(acc, 8), crc32tab[CrcIndex(acc, byte, signed) + 1])

\* Mutant of CrcInit: crc = 0.
CrcInit_Zero == W32(0, 0, 0, 0)

\* crc = ~0
CrcInit == Not(W32(0, 0, 0, 0))

\* return (~crc)
CrcReturn(acc) == Not(acc)

\* ------------------------------------------------------------- constants

\* hash.c line 28: "|m| is 8 million or less (2^FURC_SHIFT)", 2^23 = 8388608.
FURC_SHIFT == 23

\* The retry bound of the walk.  hash.h sets it; the walk is checked for
\* small values of it, so that a walk that uses up every try is reached.
FURC_MAX_TRIES == 3

furc_maximum_pool_size == 2 ^ FURC_SHIFT

\* The number of cells of the array furc_hash allocates (line 183).  hash.h
\* sets it.
FURC_CACHE_SIZE == 1024

\* --------------------------------------------------------------- bounds

\* Pool sizes 0..MaxPool are tried, and the two largest depths besides.
MaxPool == 5

\* Calls made one after the other on the same caller-supplied array.
MaxCalls == 2

PoolSizes ==
    (0..MaxPool) \cup {2 ^ (FURC_SHIFT - 1), 2 ^ (FURC_SHIFT - 1) + 1,
                       furc_maximum_pool_size - 1, furc_maximum_pool_size}

\* The keys "og" and "kd".
Keys == {<<111, 103>>, <<107, 100>>}

\* Calls of furc_get_bit made one after the other when it is exercised
\* alone, and the indices it is asked for.
MaxBitCalls == 3

BitIdx == {0, 63, 64, 200}

\* crc32_hash is run on every byte sequence of at most MaxCrcLen bytes over
\* CrcBytes, and on "123456789".
MaxCrcLen == 3

CrcBytes == {0, 49, 128, 165, 255}

Check9 == <<49, 50, 51, 52, 53, 54, 55, 56, 57>>

CrcKeys == {Check9} \cup UNION {[1..n -> CrcBytes] : n \in 0..MaxCrcLen}

\* A null key pointer: no byte sequence.
NULL == <<-1>>

\* What an uninitialised uint64_t cell, and the uninitialised local
\* old_ord, may hold.
JunkWords == {Zero64, Ones64}
JunkOrds == {-1, 0, 3}

\* ----------------------------------------------------------- the array

\* uint64_t hash[]: the cells written so far, and the indeterminate value
\* that every cell never written holds.
FreshArray(junk) == [junk |-> junk, cells |-> <<>>]

Cell(hash, n) == IF n \in DOMAIN hash.cells THEN hash.cells[n] ELSE hash.junk

Store(hash, n, v) == [hash EXCEPT !.cells = (n :> v) @@ @]

\* ------------------------------------------------------- furc_get_bit

\* for (n = *old_ord_p + 1; n <= ord; n++) hash[n] = ...
RECURSIVE FillFrom(_, _, _, _, _)
FillFrom(key, len, hash, n, ord) ==
    IF n > ord THEN hash
    ELSE FillFrom(key, len,
                  Store(hash, n, IF n = 0 THEN murmur_hash_64A(key, len, SEED)
                                 ELSE murmur_rehash_64A(Cell(hash, n - 1))),
                  n + 1, ord)

\* The ordinals n, n + 1, ..., ord, in the order the loop writes them.
RECURSIVE Ordinals(_, _)
Ordinals(n, ord) ==
    IF n > ord THEN <<>>
    ELSE IF n = ord THEN <<n>>
    ELSE Ordinals(n, (n + ord) \div 2) \o Ordinals(((n + ord) \div 2) + 1, ord)

\* Mutant of BitOf: the mask 0x1f for 0x3f.
BitOf_Mask1f(hash, idx, marker, wrote) ==
    [ret     |-> Shr(Cell(hash, idx \div 64), idx % 32)[1] % 2,
     hash    |-> hash,
     old_ord |-> marker,
     wrote   |-> wrote,
     read    |-> <<[ord |-> idx \div 64, marker |-> marker]>>]

\* Mutant of BitOf: hash[ord + 1] for hash[ord].
BitOf_NextBlock(hash, idx, marker, wrote) ==
    [ret     |-> Shr(Cell(hash, (idx \div 64) + 1), idx % 64)[1] % 2,
     hash    |-> hash,
     old_ord |-> marker,
     wrote   |-> wrote,
     read    |-> <<[ord |-> (idx \div 64) + 1, marker |-> marker]>>]

\* return (hash[ord] >> (idx & 0x3f)) & 0x1, with the array and the marker
\* as the call leaves them, the ordinals it wrote (one hash computed for
\* each) and the ordinal it read, with the marker at that read.
BitOf(hash, idx, marker, wrote) ==
    [ret     |-> Shr(Cell(hash, idx \div 64), idx % 64)[1] % 2,
     hash    |-> hash,
     old_ord |-> marker,
     wrote   |-> wrote,
     read    |-> <<[ord |-> idx \div 64, marker |-> marker]>>]

\* Mutant of furc_get_bit: a NULL key leaves the marker as it is.
furc_get_bit_KeepMarker(key, len, idx, hash, old_ord) ==
    IF key = NULL
    THEN [ret |-> 0, hash |-> hash, old_ord |-> old_ord, wrote |-> <<>>,
          read |-> <<>>]
    ELSE IF old_ord < idx \div 64
         THEN BitOf(FillFrom(key, len, hash, old_ord + 1, idx \div 64), idx,
                    idx \div 64, Ordinals(old_ord + 1, idx \div 64))
         ELSE BitOf(hash, idx, old_ord, <<>>)

\* Mutant of furc_get_bit: a NULL key sets the marker to 0.
furc_get_bit_Sentinel0(key, len, idx, hash, old_ord) ==
    IF key = NULL
    THEN [ret |-> 0, hash |-> hash, old_ord |-> 0, wrote |-> <<>>,
          read |-> <<>>]
    ELSE IF old_ord < idx \div 64
         THEN BitOf(FillFrom(key, len, hash, old_ord + 1, idx \div 64), idx,
                    idx \div 64, Ordinals(old_ord + 1, idx \div 64))
         ELSE BitOf(hash, idx, old_ord, <<>>)

\* Mutant of furc_get_bit: the test *old_ord_p <= ord, which computes the
\* marker's block again.
furc_get_bit_Refill(key, len, idx, hash, old_ord) ==
    IF key = NULL
    THEN [ret |-> 0, hash |-> hash, old_ord |-> -1, wrote |-> <<>>,
          read |-> <<>>]
    ELSE IF old_ord <= idx \div 64
         THEN BitOf(FillFrom(key, len, hash, idx \div 64, idx \div 64), idx,
                    idx \div 64, Ordinals(idx \div 64, idx \div 64))
         ELSE BitOf(hash, idx, old_ord, <<>>)

furc_get_bit(key, len, idx, hash, old_ord) ==
    IF key = NULL
    THEN [ret |-> 0, hash |-> hash, old_ord |-> -1, wrote |-> <<>>,
          read |-> <<>>]
    ELSE IF old_ord < idx \div 64
         THEN BitOf(FillFrom(key, len, hash, old_ord + 1, idx \div 64), idx,
                    idx \div 64, Ordinals(old_ord + 1, idx \div 64))
         ELSE BitOf(hash, idx, old_ord, <<>>)

\* ---------------------------------------------------- furc_hash_array

\* for (d = 0; m > (1ul << d); d++) ;
RECURSIVE Depth(_, _)
Depth(m, d) == IF m > 2 ^ d THEN Depth(m, d + 1) ELSE d

\* A frame of furc_hash_array: its position, its locals, the array it was
\* handed, its return value, and the record of what it did (path, nreset,
\* reqs, bits, cands, writes, reads), which the code does not read.
Returned(f, ret, path) == [f EXCEPT !.pc = "done", !.ret = ret, !.path = path]

\* A call of furc_get_bit(key, len, f.a, hash, &old_ord) and its record.
Got(f, g) ==
    [f EXCEPT !.hash = g.hash, !.old_ord = g.old_ord,
              !.reqs = Append(@, f.a), !.bits = Append(@, g.ret),
              !.writes = @ \o g.wrote, !.reads = @ \o g.read]

\* Mutant of EnterStep: the reset is made before the test of m.
EnterStep_ResetFirst(key, len, m, hash, junkOrd) ==
    IF m <= 1
    THEN [pc |-> "done", d |-> 0, a |-> 0, tries |-> 0, num |-> 0, i |-> 0,
          old_ord |-> -1, hash |-> hash, ret |-> 0, path |-> "trivial",
          nreset |-> 1, reqs |-> <<>>, bits |-> <<>>, cands |-> <<>>,
          writes |-> <<>>, reads |-> <<>>]
    ELSE [pc |-> "reset", d |-> 0, a |-> 0, tries |-> 0, num |-> 0, i |-> 0,
          old_ord |-> junkOrd, hash |-> hash, ret |-> 0, path |-> "none",
          nreset |-> 0, reqs |-> <<>>, bits |-> <<>>, cands |-> <<>>,
          writes |-> <<>>, reads |-> <<>>]

\* Lines 140-153: entry, the assertion's pool sizes, the trivial pool.
EnterStep(key, len, m, hash, junkOrd) ==
    LET f == [pc |-> "reset", d |-> 0, a |-> 0, tries |-> 0, num |-> 0, i |-> 0,
              old_ord |-> junkOrd, hash |-> hash, ret |-> 0, path |-> "none",
              nreset |-> 0, reqs |-> <<>>, bits |-> <<>>, cands |-> <<>>,
              writes |-> <<>>, reads |-> <<>>]
    IN  IF m <= 1 THEN Returned(f, 0, "trivial") ELSE f

\* Mutant of ResetOn: a = 0 for a = d.
ResetOn_StartAtZero(f, g, dd) ==
    IF 0 < FURC_MAX_TRIES
    THEN [f EXCEPT !.hash = g.hash, !.old_ord = g.old_ord,
                   !.nreset = @ + 1, !.writes = <<>>,
                   !.d = dd, !.a = 0, !.tries = 0, !.pc = "descend"]
    ELSE Returned([f EXCEPT !.hash = g.hash, !.old_ord = g.old_ord,
                            !.nreset = @ + 1, !.writes = <<>>,
                            !.d = dd, !.a = 0, !.tries = 0], 0, "exhausted")

\* Lines 155-160: the reset, the depth, the first test of the retry loop.
ResetOn(f, g, dd) ==
    IF 0 < FURC_MAX_TRIES
    THEN [f EXCEPT !.hash = g.hash, !.old_ord = g.old_ord,
                   !.nreset = @ + 1, !.writes = <<>>,
                   !.d = dd, !.a = dd, !.tries = 0, !.pc = "descend"]
    ELSE Returned([f EXCEPT !.hash = g.hash, !.old_ord = g.old_ord,
                            !.nreset = @ + 1, !.writes = <<>>,
                            !.d = dd, !.a = dd, !.tries = 0], 0, "exhausted")

ResetStep(f, m) ==
    ResetOn(f, furc_get_bit(NULL, 0, 0, f.hash, f.old_ord), Depth(m, 0))

\* Mutant of DescendOn: the candidate starts from num = 0.
DescendOn_LeadingZero(f, g) ==
    IF g.ret = 0
    THEN IF f.d - 1 = 0
         THEN Returned([Got(f, g) EXCEPT !.d = 0], 0, "underflow")
         ELSE [Got(f, g) EXCEPT !.d = f.d - 1, !.a = f.d - 1]
    ELSE [Got(f, g) EXCEPT !.a = f.a + FURC_SHIFT, !.num = 0, !.i = 0,
                           !.pc = "build"]

\* Mutant of DescendOn: a = d is left out after the decrement.
DescendOn_KeepA(f, g) ==
    IF g.ret = 0
    THEN IF f.d - 1 = 0
         THEN Returned([Got(f, g) EXCEPT !.d = 0], 0, "underflow")
         ELSE [Got(f, g) EXCEPT !.d = f.d - 1]
    ELSE [Got(f, g) EXCEPT !.a = f.a + FURC_SHIFT, !.num = 1, !.i = 0,
                           !.pc = "build"]

\* Lines 161-168: one test of the while loop, and what follows it.
DescendOn(f, g) ==
    IF g.ret = 0
    THEN IF f.d - 1 = 0
         THEN Returned([Got(f, g) EXCEPT !.d = 0], 0, "underflow")
         ELSE [Got(f, g) EXCEPT !.d = f.d - 1, !.a = f.d - 1]
    ELSE [Got(f, g) EXCEPT !.a = f.a + FURC_SHIFT, !.num = 1, !.i = 0,
                           !.pc = "build"]

DescendStep(f, key, len) ==
    DescendOn(f, furc_get_bit(key, len, f.a, f.hash, f.old_ord))

\* Mutant of BuildOn: num | bit for (num << 1) | bit.
BuildOn_NoShift(f, g) ==
    [Got(f, g) EXCEPT !.num = IF g.ret = 1 /\ f.num % 2 = 0 THEN f.num + 1
                               ELSE f.num,
                      !.a = f.a + FURC_SHIFT, !.i = f.i + 1]

\* Lines 169-172: one pass of the inner for loop.
BuildOn(f, g) ==
    [Got(f, g) EXCEPT !.num = 2 * f.num + g.ret,
                      !.a = f.a + FURC_SHIFT, !.i = f.i + 1]

\* Mutant of TestStep: the test num <= m.
TestStep_AcceptEqual(f, m) ==
    IF f.num <= m
    THEN Returned([f EXCEPT !.cands = Append(@, f.num)], f.num, "accepted")
    ELSE IF f.tries + 1 < FURC_MAX_TRIES
         THEN [f EXCEPT !.cands = Append(@, f.num), !.tries = f.tries + 1,
                        !.pc = "descend"]
         ELSE Returned([f EXCEPT !.cands = Append(@, f.num),
                                 !.tries = f.tries + 1], 0, "exhausted")

\* Mutant of TestStep: tries is not counted up.
TestStep_NoCount(f, m) ==
    IF f.num < m
    THEN Returned([f EXCEPT !.cands = Append(@, f.num)], f.num, "accepted")
    ELSE IF f.tries < FURC_MAX_TRIES
         THEN [f EXCEPT !.cands = Append(@, f.num), !.pc = "descend"]
         ELSE Returned([f EXCEPT !.cands = Append(@, f.num)], 0, "exhausted")

\* Mutant of TestStep: a retry starts again from a = d.
TestStep_RestartA(f, m) ==
    IF f.num < m
    THEN Returned([f EXCEPT !.cands = Append(@, f.num)], f.num, "accepted")
    ELSE IF f.tries + 1 < FURC_MAX_TRIES
         THEN [f EXCEPT !.cands = Append(@, f.num), !.tries = f.tries + 1,
                        !.a = f.d, !.pc = "descend"]
         ELSE Returned([f EXCEPT !.cands = Append(@, f.num),
                                 !.tries = f.tries + 1], 0, "exhausted")

\* Lines 173-176 and 160: the test of the candidate, and the next test of
\* the retry loop.
TestStep(f, m) ==
    IF f.num < m
    THEN Returned([f EXCEPT !.cands = Append(@, f.num)], f.num, "accepted")
    ELSE IF f.tries + 1 < FURC_MAX_TRIES
         THEN [f EXCEPT !.cands = Append(@, f.num), !.tries = f.tries + 1,
                        !.pc = "descend"]
         ELSE Returned([f EXCEPT !.cands = Append(@, f.num),
                                 !.tries = f.tries + 1], 0, "exhausted")

\* Lines 169-176: one test of the inner for loop.
BuildStep(f, key, len, m) ==
    IF f.i < f.d - 1
    THEN BuildOn(f, furc_get_bit(key, len, f.a, f.hash, f.old_ord))
    ELSE TestStep(f, m)

WalkStep(f, key, len, m) ==
    CASE f.pc = "reset"   -> ResetStep(f, m)
      [] f.pc = "descend" -> DescendStep(f, key, len)
      [] f.pc = "build"   -> BuildStep(f, key, len, m)

\* The steps of the longest walk: the reset, and for each try at most
\* FURC_SHIFT bits read by the while loop, FURC_SHIFT - 1 by the inner for
\* loop, and the test.
WalkSteps == 1 + FURC_MAX_TRIES * (2 * FURC_SHIFT)

\* The frame n steps after f, or the frame of the return if the walk
\* returns before: the first half of the steps, then the rest.
RECURSIVE RunWalk(_, _, _, _, _)
RunWalk(f, key, len, m, n) ==
    IF f.pc = "done" THEN f
    ELSE IF n = 1 THEN WalkStep(f, key, len, m)
    ELSE RunWalk(RunWalk(f, key, len, m, n \div 2), key, len, m, n - (n \div 2))

\* The whole call, from entry to return.
furc_hash_array(key, len, m, hash, junkOrd) ==
    RunWalk(EnterStep(key, len, m, hash, junkOrd), key, len, m, WalkSteps)

\* uint64_t hash[FURC_CACHE_SIZE]: a new array on the stack, no cell of it
\* written.
furc_hash(key, len, m, junk, junkOrd) ==
    furc_hash_array(key, len, m, FreshArray(junk), junkOrd).ret

\* --------------------------------------------------- the reference stream

\* The highest ordinal a walk can ask for: the index d + (tries * d - 1) *
\* FURC_SHIFT at its largest.
LastRefOrd ==
    (FURC_SHIFT + (FURC_MAX_TRIES * FURC_SHIFT) * FURC_SHIFT) \div 64

\* The n blocks that follow block b, each the rehash of the one before:
\* the first half of them, then the rest.
RECURSIVE RefFrom(_, _)
RefJoin(left, n) == left \o RefFrom(left[Len(left)], n)

RefFrom(b, n) ==
    IF n = 0 THEN <<>>
    ELSE IF n = 1 THEN <<murmur_rehash_64A(b)>>
    ELSE RefJoin(RefFrom(b, n \div 2), n - (n \div 2))

\* Block 0 = murmur_hash_64A(key, len, SEED), block n = the rehash of block
\* n - 1; block n is RefStream[key][n + 1].
RefBlocks(b) == <<b>> \o RefFrom(b, LastRefOrd)

RefStream == [k \in Keys |-> RefBlocks(murmur_hash_64A(k, Len(k), SEED))]

\* What furc_hash returns for each key and pool size, whatever its new
\* array and its uninitialised marker hold.
FreshResult ==
    [k \in Keys |-> [mm \in PoolSizes |->
        {furc_hash(k, Len(k), mm, j, o) : j \in JunkWords, o \in JunkOrds}]]

\* ---------------------------------------------------------------- state

VARIABLES
    pc,       \* "idle", or the position of the call in progress, or "done"
    key, m,   \* the arguments of the call (len is Len(key))
    hash,     \* the caller-supplied array, kept from call to call
    old_ord,  \* int32_t old_ord, the marker
    d, a, tries, num, i,
    ret,      \* the value returned
    path,     \* which return statement returned it
    nreset,   \* calls of furc_get_bit with a NULL key in this call
    reqs,     \* the bit indices requested in this call, in order
    bits,     \* the bit returned for each
    cands,    \* the candidates built in this call, in order
    writes,   \* the ordinals written since the reset, in order
    reads,    \* the ordinal of each block read, and the marker at that read
    d0,       \* the depth the walk started with
    hash0,    \* the array as the call found it
    ord0,     \* what old_ord held when the call began
    calls,    \* calls made so far
    ref,      \* RefStream, which no step changes
    fresh,    \* FreshResult, which no step changes
    gbArgs,   \* furc_get_bit exercised alone: the arguments of its latest call
    wrote,    \* and the ordinals that call wrote
    crcPc,    \* crc32_hash: "idle", "loop" or "done"
    crcKey,   \* its key (len is Len(crcKey))
    crcSigned,\* whether char is a signed type
    crcI,     \* unsigned int i
    crc,      \* uint32_t crc
    crcRet,   \* the value returned
    crcAccs,  \* the values crc has held, in order
    murPc,    \* the murmur functions exercised alone: "idle", "rehash",
              \* "mix" or "done"
    murK,     \* uint64_t k, the argument
    murN,     \* how many arguments the rehash has produced itself
    murRe,    \* murmur_rehash_64A(k)
    murMix    \* murmur_hash_64A(&k, 8, SEED)

vars == <<pc, key, m, hash, old_ord, d, a, tries, num, i, ret, path, nreset,
          reqs, bits, cands, writes, reads, d0, hash0, ord0, calls, ref, fresh,
          gbArgs, wrote, crcPc, crcKey, crcSigned, crcI, crc, crcRet, crcAccs,
          murPc, murK, murN, murRe, murMix>>

tables == <<ref, fresh>>

walkVars == <<pc, key, m, hash, old_ord, d, a, tries, num, i, ret, path, nreset,
              reqs, bits, cands, writes, reads, d0, hash0, ord0, calls>>

bitVars == <<gbArgs, wrote>>

crcVars == <<crcPc, crcKey, crcSigned, crcI, crc, crcRet, crcAccs>>

murVars == <<murPc, murK, murN, murRe, murMix>>

Cur ==
    [pc |-> pc, d |-> d, a |-> a, tries |-> tries, num |-> num, i |-> i,
     old_ord |-> old_ord, hash |-> hash, ret |-> ret, path |-> path,
     nreset |-> nreset, reqs |-> reqs, bits |-> bits, cands |-> cands,
     writes |-> writes, reads |-> reads]

Install(f) ==
    /\ pc' = f.pc /\ d' = f.d /\ a' = f.a /\ tries' = f.tries /\ num' = f.num
    /\ i' = f.i /\ old_ord' = f.old_ord /\ hash' = f.hash /\ ret' = f.ret
    /\ path' = f.path /\ nreset' = f.nreset /\ reqs' = f.reqs /\ bits' = f.bits
    /\ cands' = f.cands /\ writes' = f.writes /\ reads' = f.reads

\* No call of furc_get_bit alone, no call of crc32_hash.
BitIdle == gbArgs = [key |-> NULL, len |-> 0, idx |-> 0] /\ wrote = <<>>

CrcIdle ==
    /\ crcPc = "idle" /\ crcKey = <<>> /\ crcI = 0
    /\ crc = W32(0, 0, 0, 0) /\ crcRet = W32(0, 0, 0, 0) /\ crcAccs = <<>>

\* No call of the murmur functions alone.
MurIdle ==
    /\ murPc = "idle" /\ murK = Zero64 /\ murN = 0
    /\ murRe = Zero64 /\ murMix = Zero64

\* No call of furc_hash_array yet; pc tells the three uses apart.
WalkIdle(at) ==
    /\ pc = at
    /\ key = NULL /\ m = 0
    /\ d = 0 /\ a = 0 /\ tries = 0 /\ num = 0 /\ i = 0
    /\ ret = 0 /\ path = "none" /\ nreset = 0
    /\ reqs = <<>> /\ bits = <<>> /\ cands = <<>> /\ writes = <<>>
    /\ reads = <<>>
    /\ d0 = 0 /\ calls = 0

Init ==
    /\ pc = "idle"
    /\ key = NULL /\ m = 0
    /\ hash \in {FreshArray(j) : j \in JunkWords}
    /\ old_ord = -1
    /\ BitIdle /\ CrcIdle /\ MurIdle /\ crcSigned = FALSE
    /\ d = 0 /\ a = 0 /\ tries = 0 /\ num = 0 /\ i = 0
    /\ ret = 0 /\ path = "none" /\ nreset = 0
    /\ reqs = <<>> /\ bits = <<>> /\ cands = <<>> /\ writes = <<>>
    /\ reads = <<>>
    /\ d0 = 0 /\ hash0 = hash /\ ord0 = -1
    /\ calls = 0
    /\ ref = RefStream /\ fresh = FreshResult

\* furc_hash_array(k, Len(k), mm, hash) is called.
Enter(k, mm) ==
    /\ pc \in {"idle", "done"}
    /\ calls < MaxCalls
    /\ mm <= furc_maximum_pool_size
    /\ \E junkOrd \in JunkOrds :
          /\ Install(EnterStep(k, Len(k), mm, hash, junkOrd))
          /\ ord0' = junkOrd
    /\ key' = k /\ m' = mm
    /\ d0' = 0 /\ hash0' = hash
    /\ calls' = calls + 1
    /\ UNCHANGED <<tables, murVars, bitVars, crcVars>>

Reset ==
    /\ pc = "reset"
    /\ Install(ResetStep(Cur, m))
    /\ d0' = d'
    /\ UNCHANGED <<key, m, hash0, ord0, calls, tables, murVars, bitVars, crcVars>>

Descend ==
    /\ pc = "descend"
    /\ Install(DescendStep(Cur, key, Len(key)))
    /\ UNCHANGED <<key, m, d0, hash0, ord0, calls, tables, murVars, bitVars, crcVars>>

Build ==
    /\ pc = "build"
    /\ Install(BuildStep(Cur, key, Len(key), m))
    /\ UNCHANGED <<key, m, d0, hash0, ord0, calls, tables, murVars, bitVars, crcVars>>

Next ==
    \/ \E k \in Keys, mm \in PoolSizes : Enter(k, mm)
    \/ Reset
    \/ Descend
    \/ Build

Spec == Init /\ [][Next]_vars

\* ------------------------------------------- furc_get_bit exercised alone

\* The array and the marker are as a caller's first call finds them: no
\* cell written, the marker uninitialised.
InitGetBit ==
    /\ WalkIdle("bits")
    /\ hash \in {FreshArray(j) : j \in JunkWords}
    /\ old_ord \in JunkOrds
    /\ hash0 = hash /\ ord0 = old_ord
    /\ ref = RefStream /\ fresh = <<>>
    /\ BitIdle /\ CrcIdle /\ MurIdle /\ crcSigned = FALSE

InstallBit(g) ==
    /\ hash' = g.hash /\ old_ord' = g.old_ord /\ ret' = g.ret /\ wrote' = g.wrote

\* furc_get_bit(NULL, len, idx, hash, &old_ord)
GetBitNull(len, idx) ==
    /\ pc = "bits"
    /\ calls < MaxBitCalls
    /\ InstallBit(furc_get_bit(NULL, len, idx, hash, old_ord))
    /\ gbArgs' = [key |-> NULL, len |-> len, idx |-> idx]
    /\ key' = NULL
    /\ nreset' = nreset + 1
    /\ reqs' = <<>> /\ bits' = <<>> /\ writes' = <<>> /\ reads' = <<>>
    /\ hash0' = hash /\ ord0' = old_ord
    /\ calls' = calls + 1
    /\ UNCHANGED <<pc, m, d, a, tries, num, i, path, cands, d0, tables, murVars, crcVars>>

\* furc_get_bit(k, Len(k), idx, hash, &old_ord), after a reset and for the
\* key asked for since that reset.
GetBitKey(k, idx) ==
    /\ pc = "bits"
    /\ calls < MaxBitCalls
    /\ nreset >= 1
    /\ key \in {NULL, k}
    /\ InstallBit(furc_get_bit(k, Len(k), idx, hash, old_ord))
    /\ gbArgs' = [key |-> k, len |-> Len(k), idx |-> idx]
    /\ key' = k
    /\ reqs' = Append(reqs, idx) /\ bits' = Append(bits, ret')
    /\ writes' = writes \o wrote'
    /\ reads' = reads \o furc_get_bit(k, Len(k), idx, hash, old_ord).read
    /\ hash0' = hash /\ ord0' = old_ord
    /\ calls' = calls + 1
    /\ UNCHANGED <<pc, m, d, a, tries, num, i, path, nreset, cands, d0, tables,
                   murVars,
                   crcVars>>

NextGetBit ==
    \/ \E len \in {0, 2}, idx \in BitIdx : GetBitNull(len, idx)
    \/ \E k \in Keys, idx \in BitIdx : GetBitKey(k, idx)

SpecGetBit == InitGetBit /\ [][NextGetBit]_vars

\* ------------------------------------------------------------ crc32_hash

InitCrc ==
    /\ WalkIdle("crc")
    /\ hash = FreshArray(Zero64) /\ old_ord = -1
    /\ hash0 = hash /\ ord0 = old_ord
    /\ ref = <<>> /\ fresh = <<>>
    /\ BitIdle /\ CrcIdle /\ MurIdle /\ crcSigned \in BOOLEAN

\* crc32_hash(k, Len(k)) is called: lines 270-274.
CrcEnter(k) ==
    /\ crcPc \in {"idle", "done"}
    /\ crcKey' = k
    /\ crc' = CrcInit
    /\ crcI' = 0
    /\ crcRet' = W32(0, 0, 0, 0)
    /\ crcAccs' = <<CrcInit>>
    /\ crcPc' = "loop"
    /\ UNCHANGED <<crcSigned, walkVars, tables, murVars, bitVars>>

\* Lines 276-281: one test of the for loop.
CrcStep ==
    /\ crcPc = "loop"
    /\ IF crcI < Len(crcKey)
       THEN /\ crc' = CrcFold(crc, crcKey[crcI + 1], crcSigned)
            /\ crcI' = crcI + 1
            /\ crcAccs' = Append(crcAccs, crc')
            /\ UNCHANGED <<crcPc, crcRet>>
       ELSE /\ crcRet' = CrcReturn(crc)
            /\ crcPc' = "done"
            /\ UNCHANGED <<crc, crcI, crcAccs>>
    /\ UNCHANGED <<crcKey, crcSigned, walkVars, tables, murVars, bitVars>>

NextCrc ==
    \/ \E k \in CrcKeys : CrcEnter(k)
    \/ CrcStep

SpecCrc == InitCrc /\ [][NextCrc]_vars

\* ------------------------------------------ the murmur functions alone

\* The arguments murmur_rehash_64A is given first: the ends of the range,
\* words of one set bit, the code's own constants, and
\* murmur_hash_64A("a", 1, SEED).
MurmurArgs ==
    {Zero64, Ones64, Nat64(1), Nat64(8), MurmurM, ZeroExt64(SEED),
     W64(128, 0, 0, 0, 0, 0, 0, 0),
     W64(61, 105, 97, 198, 153, 145, 76, 123)}

\* How many times the value returned is passed back in, as line 132 does.
MaxRehash == 5

\* The 8 bytes of k as they lie in memory, where line 58 would read them
\* through a const uint64_t*: byte j holds bits 8j .. 8j+7.
NativeBytes(k) ==
    <<ByteAt(k, 1), ByteAt(k, 2), ByteAt(k, 3), ByteAt(k, 4),
      ByteAt(k, 5), ByteAt(k, 6), ByteAt(k, 7), ByteAt(k, 8)>>

InitMurmur ==
    /\ WalkIdle("murmur")
    /\ hash = FreshArray(Zero64) /\ old_ord = -1
    /\ hash0 = hash /\ ord0 = old_ord
    /\ ref = <<>> /\ fresh = <<>>
    /\ BitIdle /\ CrcIdle /\ MurIdle /\ crcSigned = FALSE

\* A word k is chosen.
MurEnter(k) ==
    /\ murPc \in {"idle", "done"}
    /\ murK' = k /\ murN' = 0
    /\ murRe' = Zero64 /\ murMix' = Zero64
    /\ murPc' = "rehash"
    /\ UNCHANGED <<walkVars, tables, bitVars, crcVars>>

\* murmur_rehash_64A(k): lines 91-109.
MurRehash ==
    /\ murPc = "rehash"
    /\ murRe' = murmur_rehash_64A(murK)
    /\ murPc' = "mix"
    /\ UNCHANGED <<murK, murN, murMix, walkVars, tables, bitVars, crcVars>>

\* murmur_hash_64A(&k, 8, SEED): lines 49-88.
MurMix ==
    /\ murPc = "mix"
    /\ murMix' = murmur_hash_64A(NativeBytes(murK), 8, SEED)
    /\ murPc' = "done"
    /\ UNCHANGED <<murK, murN, murRe, walkVars, tables, bitVars, crcVars>>

\* The value murmur_rehash_64A returned is its next argument: line 132.
MurAgain ==
    /\ murPc = "done" /\ murN < MaxRehash
    /\ murK' = murRe /\ murN' = murN + 1
    /\ murRe' = Zero64 /\ murMix' = Zero64
    /\ murPc' = "rehash"
    /\ UNCHANGED <<walkVars, tables, bitVars, crcVars>>

NextMurmur ==
    \/ \E k \in MurmurArgs : MurEnter(k)
    \/ MurRehash
    \/ MurMix
    \/ MurAgain

SpecMurmur == InitMurmur /\ [][NextMurmur]_vars

\* Bit (idx mod 64) of block (idx div 64) of the reference stream of key k.
RefBit(k, idx) ==
    (ref[k][(idx \div 64) + 1][((idx % 64) \div 8) + 1] \div (2 ^ (idx % 8))) % 2

Walking == pc \in {"reset", "descend", "build"}

\* ---------------------------------------------------------------- claims

\* C1: for every key and every pool size m with 1 <= m <= 2^FURC_SHIFT the
\* value returned is at least 0 and below m, whichever return statement
\* returned it.
C1_Range ==
    (pc = "done" /\ m >= 1 /\ m <= furc_maximum_pool_size)
        => (0 <= ret /\ ret < m)

\* A walk that used up every try has returned.
C1_Witness ==
    pc = "done" /\ m >= 2 /\ path = "exhausted" /\ Len(cands) = FURC_MAX_TRIES

\* C2: the value returned depends on the key and the pool size only: with
\* whatever an earlier call left in the array, it is the value furc_hash
\* returns with a new array.
C2_FreshEquivalent ==
    pc = "done" => fresh[key][m] = {ret}

\* A call has returned a bucket above 0 after reading blocks in which the
\* array held another stream when the call began.
C2_Witness ==
    /\ pc = "done" /\ calls = 2 /\ ret > 0
    /\ \E n \in DOMAIN hash0.cells :
          n <= old_ord /\ hash0.cells[n] # hash.cells[n]

\* C3: for m >= 2 the value returned is the first candidate below m among
\* at most FURC_MAX_TRIES candidates; it is 0 exactly when the walk failed
\* (d was decremented to 0, or FURC_MAX_TRIES candidates were all >= m);
\* no accepted candidate is 0.
C3_FirstCandidate ==
    (pc = "done" /\ m >= 2) =>
        /\ Len(cands) <= FURC_MAX_TRIES
        /\ \A j \in 1..(Len(cands) - 1) : cands[j] >= m
        /\ path \in {"underflow", "accepted", "exhausted"}
        /\ path = "accepted" =>
              (Len(cands) >= 1 /\ ret = cands[Len(cands)] /\ ret < m /\ ret # 0)
        /\ path = "underflow" =>
              (d = 0 /\ ret = 0 /\ \A j \in 1..Len(cands) : cands[j] >= m)
        /\ path = "exhausted" =>
              (Len(cands) = FURC_MAX_TRIES /\ ret = 0
               /\ \A j \in 1..Len(cands) : cands[j] >= m)
        /\ ret = 0 <=>
              (\/ d = 0
               \/ Len(cands) = FURC_MAX_TRIES /\ \A j \in 1..Len(cands) : cands[j] >= m)

\* A candidate was accepted after an earlier one was rejected.
C3_Witness ==
    pc = "done" /\ path = "accepted" /\ Len(cands) >= 2 /\ ret > 0

\* The steps the walk has left at most: those of the tries not yet begun,
\* and those of the try in progress.
Variant ==
    CASE pc = "descend" -> (FURC_MAX_TRIES - tries) * (2 * d0 + 2) + 2 * d + 1
      [] pc = "build"   -> (FURC_MAX_TRIES - tries) * (2 * d0 + 2) + (d - i)
      [] OTHER          -> 0

\* C4: every call returns: the reset is one step, and each step of the
\* walk after it lowers Variant, which is never below 0; the bits requested
\* are at most FURC_MAX_TRIES * d0; d never increases during the walk.
C4_Terminates ==
    /\ [](Len(reqs) <= FURC_MAX_TRIES * d0)
    /\ [](Variant >= 0)
    /\ [][(pc = "reset") => (pc' \in {"descend", "done"})]_vars
    /\ [][(pc \in {"descend", "build"}) => (d' <= d /\ Variant' < Variant)]_vars

\* A walk from the largest depth has requested FURC_MAX_TRIES * d0 bits.
C4_Witness ==
    pc = "done" /\ d0 = FURC_SHIFT /\ Len(reqs) = FURC_MAX_TRIES * d0

\* C5: with m <= 1 the call returns 0 at once: no bit is requested, the
\* marker is not reset and no cell of the array changes.
C5_Trivial ==
    (m <= 1) =>
        /\ pc \in {"idle", "done"}
        /\ ret = 0
        /\ reqs = <<>> /\ nreset = 0 /\ writes = <<>>
        /\ old_ord = ord0
        /\ hash = hash0

\* A call with m = 1 has returned on an array that holds blocks, its
\* marker holding what it held when the call began.
C5_Witness ==
    /\ pc = "done" /\ m = 1 /\ path = "trivial" /\ calls = 2
    /\ DOMAIN hash.cells # {} /\ old_ord = 3

\* C6: after the reset the blocks written are the ordinals 0..marker, each
\* written once and in increasing order; the marker never decreases and a
\* block once written keeps its value.
C6_Contiguous ==
    /\ []((pc \in {"descend", "build", "done"} /\ nreset >= 1)
            => writes = Ordinals(0, old_ord))
    /\ [][(pc \in {"descend", "build"}) =>
            /\ old_ord' >= old_ord
            /\ SubSeq(writes', 1, Len(writes)) = writes
            /\ \A n \in 0..old_ord : Cell(hash', n) = Cell(hash, n)]_vars

\* A walk has filled nine blocks and was then served from the blocks it
\* holds.
C6_Witness ==
    pc = "done" /\ old_ord >= 8 /\ Len(reqs) > Len(writes) + 8

\* C7: each bit the walk was given is bit (idx mod 64) of block (idx div
\* 64) of the reference stream of the key, in whatever order it asked.
C7_StreamBits ==
    \A j \in 1..Len(reqs) : bits[j] = RefBit(key, reqs[j])

\* The walk asked for an index below the one before and, later, for an
\* index in another block.
C7_Witness ==
    /\ pc = "done" /\ old_ord >= 1
    /\ \E j \in 2..Len(reqs) : reqs[j] < reqs[j - 1]

\* C8 as stated: within one walk the indices requested never go down.
C8_NonDecreasing ==
    \A j \in 2..Len(reqs) : reqs[j] >= reqs[j - 1]

\* C8 amended: each index requested is FURC_SHIFT above the one before,
\* except after a 0 bit of the descend loop, when it is below every index
\* requested before.
C8_Restarts ==
    \A j \in 2..Len(reqs) :
        \/ reqs[j] = reqs[j - 1] + FURC_SHIFT
        \/ bits[j - 1] = 0 /\ \A l \in 1..(j - 1) : reqs[j] < reqs[l]

\* After a rejected candidate the walk went back to a lower index.
C8_Witness ==
    /\ Len(cands) >= 1
    /\ \E j \in 2..Len(reqs) : reqs[j] < reqs[j - 1] /\ reqs[j - 1] > 2 * FURC_SHIFT

\* C9: a call of furc_get_bit with a NULL key sets the marker to -1,
\* returns 0, computes no hash and changes no cell of the array, whatever
\* idx and len it is given.
C9_NullKey ==
    (pc = "bits" /\ calls >= 1 /\ gbArgs.key = NULL) =>
        /\ old_ord = -1
        /\ ret = 0
        /\ wrote = <<>>
        /\ hash = hash0

\* A NULL key was passed with idx = 200 and len = 2 when the marker stood
\* at 3 and the array held blocks.
C9_Witness ==
    /\ pc = "bits" /\ calls >= 2
    /\ gbArgs = [key |-> NULL, len |-> 2, idx |-> 200]
    /\ ord0 = 3 /\ DOMAIN hash.cells = 0..3

\* C10: crc32_hash starts from the all-ones accumulator, folds each byte b
\* with (acc >> 8) xor table[(acc xor b) & 0xFF], the index taken from the
\* low 8 bits only also when b is negative as a char, and returns the
\* complement of the accumulator: 0x00000000 for the empty input and
\* 0xCBF43926 for "123456789".
C10_Crc32 ==
    (crcPc \in {"loop", "done"}) =>
        /\ Len(crcAccs) = crcI + 1
        /\ crcAccs[1] = W32(255, 255, 255, 255)
        /\ \A j \in 1..crcI :
              crcAccs[j + 1] =
                  Xor(Shr(crcAccs[j], 8),
                      crc32tab[XorByte(crcAccs[j][1], crcKey[j]) + 1])
        /\ crcPc = "done" =>
              /\ crcI = Len(crcKey)
              /\ \A b \in 1..4 : crcRet[b] + crcAccs[crcI + 1][b] = 255
              /\ crcKey = <<>> => crcRet = W32(0, 0, 0, 0)
              /\ crcKey = Check9 => crcRet = W32(\hcb, \hf4, \h39, \h26)

\* With char signed, the bytes 0x80 0xff 0xa5 have been hashed, to
\* 0x2bec6887.
C10_Witness ==
    /\ crcPc = "done" /\ crcSigned
    /\ crcKey = <<128, 255, 165>>
    /\ crcRet = W32(\h2b, \hec, \h68, \h87)

\* C11: within one walk no bit index is requested twice: a retry and a
\* read after the depth was decremented are at indices not read before in
\* the same call.
C11_NoRepeat ==
    \A j \in 1..Len(reqs) : \A l \in 1..Len(reqs) :
        j # l => reqs[j] # reqs[l]

\* A walk from the largest depth has returned after a rejected candidate
\* and, in the retry, a decrement of d.
C11_Witness ==
    /\ pc = "done" /\ d0 = FURC_SHIFT /\ Len(cands) >= 2
    /\ d < d0 /\ Len(reqs) > FURC_SHIFT

\* m is a power of two: the depth of m + 1 is one more than that of m.
IsPow2(mm) == \E e \in 0..FURC_SHIFT : mm = 2 ^ e

\* C12 as stated: a call with the pool m (one more than m - 1) returns what
\* furc_hash returns for the pool m - 1, or the new bucket m - 1.
C12_GrowByOne ==
    (pc = "done" /\ m >= 2 /\ (m - 1) \in PoolSizes)
        => ret \in fresh[key][m - 1] \cup {m - 1}

\* C12 amended: the same, unless m - 1 is a power of two and the walk for
\* m used up FURC_MAX_TRIES, when it returns 0.
C12_GrowUnlessExhausted ==
    (pc = "done" /\ m >= 2 /\ (m - 1) \in PoolSizes)
        => \/ ret \in fresh[key][m - 1] \cup {m - 1}
           \/ path = "exhausted" /\ IsPow2(m - 1) /\ ret = 0

\* The pool grew from 2^(FURC_SHIFT - 1), so the depth grew, and the walk
\* returned, after a rejected candidate and a decrement of d, the bucket
\* the key had before.
C12_Witness ==
    /\ pc = "done" /\ m = 2 ^ (FURC_SHIFT - 1) + 1 /\ path = "accepted"
    /\ Len(cands) >= 2 /\ d < d0 /\ ret \in fresh[key][m - 1]

\* C13: a candidate built at depth d is at least 2^(d-1) and below 2^d
\* (after i passes of the inner loop num has i + 1 bits); a candidate is
\* rejected only at the initial depth d0, and below d0 the first candidate
\* built is accepted and returned.
C13_CandidateRange ==
    /\ []((pc = "build") =>
            /\ i <= d - 1 /\ 2 ^ i <= num /\ num < 2 ^ (i + 1)
            /\ d < d0 => num < m)
    /\ []((pc = "done" /\ path = "accepted") =>
            (2 ^ (d - 1) <= ret /\ ret < 2 ^ d))
    /\ [](\A j \in 1..Len(cands) :
            cands[j] >= m => (2 ^ (d0 - 1) <= cands[j] /\ cands[j] < 2 ^ d0))
    /\ [][(pc = "build" /\ Len(cands') > Len(cands)) =>
            /\ cands' = Append(cands, num)
            /\ 2 ^ (d - 1) <= num /\ num < 2 ^ d
            /\ num >= m => d = d0
            /\ d < d0 => (pc' = "done" /\ path' = "accepted" /\ ret' = num)]_vars

\* After a rejected candidate and a decrement of d, a candidate of two
\* bits or more was built and returned.
C13_Witness ==
    /\ pc = "done" /\ path = "accepted" /\ Len(cands) >= 2
    /\ cands[1] >= m /\ d < d0 /\ d >= 2 /\ ret >= 2 ^ (d - 1)

\* The highest bit index a walk of initial depth dd can ask for.
MaxIndex(dd) == dd + (FURC_MAX_TRIES * dd - 1) * FURC_SHIFT

C15_RehashIsMix ==
    /\ murPc = "done" => murRe = murMix /\ Len(murRe) = 8
    /\ murPc \in {"rehash", "mix", "done"} =>
          /\ Len(murK) = 8 /\ \A j \in 1..8 : murK[j] \in 0..255
          /\ LoadWord(NativeBytes(murK), 0) = murK

\* Both functions have returned for an argument the rehash produced itself:
\* k = 0x18eb943424747372, the rehash of murmur_hash_64A("a", 1, SEED).
C15_Witness ==
    /\ murPc = "done" /\ murN = 1
    /\ murK = W64(24, 235, 148, 52, 36, 116, 115, 114)
    /\ murRe = W64(40, 166, 63, 178, 219, 173, 233, 55)    \* 0x28a63fb2dbade937
    /\ murMix = murRe

====
